---- MODULE Spec2Model ----
(***************************************************************************)
(* Model of the nutp message codec (src/src/lib.rs): MessageBuilder,       *)
(* Message::to_bytes and Message::from_bytes.                              *)
(*                                                                         *)
(* Text is modelled as the sequence of its UTF-8 bytes (heapless::String   *)
(* measures its capacity in bytes), byte buffers as sequences of 0..255.   *)
(* Rust indexes from 0 and TLA+ from 1: At and Slice do the shift and      *)
(* every slice is guarded by the bounds check that Rust performs (a failed *)
(* check is the outcome "Panic").                                          *)
(***************************************************************************)
EXTENDS Integers, Sequences, FiniteSets

VARIABLES
    pc,        \* position of the caller: "start", "builder", "built" (by build),
               \* "literal" (a struct literal), "encoded", "decoded"
    headers,   \* MessageBuilder.headers: the HashMap, a set of <<key, value>> entries
    body,      \* MessageBuilder.body: Option<String>
    calls,     \* the add_header / set_body calls made on the builder so far, in order
    message,   \* result of build() or a Message struct literal
    wire,      \* result of Message::to_bytes
    input,     \* the buffer handed to Message::from_bytes
    decoded    \* result of Message::from_bytes

vars == <<pc, headers, body, calls, message, wire, input, decoded>>

----------------------------------------------------------------------------
(* Bounds of the exploration *)

\* longest sequence of add_header / set_body calls on one builder
MaxCalls == 3
\* longest buffer of the exhaustive family handed to from_bytes
MaxBufLen == 4

----------------------------------------------------------------------------
(* Program constants and small helpers *)

MAX_BODY_SIZE == 4 * 1024

\* capacity of the String<260> that holds one "<key>: <value>" entry
ENTRY_CAPACITY == 260

U16 == 2 ^ 16

Min(S) == CHOOSE i \in S : \A j \in S : i <= j

\* n copies of byte c
Rep(c, n) == [i \in 1..n |-> c]

\* input[i], Rust index
At(s, i) == s[i + 1]

\* input[a..b], Rust range (callers check a <= b <= Len(s) first)
Slice(s, a, b) == SubSeq(s, a + 1, b)

\* Option / outcome values.  "Panic" is the outcome of a failed bounds check,
\* a failed unwrap or an arithmetic overflow.
NoMessage == [header |-> <<>>, body |-> <<>>]
SomeMsg(h, b) == [tag |-> "Some", val |-> [header |-> h, body |-> b]]
NoneMsg == [tag |-> "None", val |-> NoMessage]
PanicMsg == [tag |-> "Panic", val |-> NoMessage]
SomeBytes(b) == [tag |-> "Some", val |-> b]
NoneBytes == [tag |-> "None", val |-> <<>>]
PanicBytes == [tag |-> "Panic", val |-> <<>>]
\* the value of a result variable before the function has been called
NotCalledMsg == [tag |-> "NotCalled", val |-> NoMessage]
NotCalledBytes == [tag |-> "NotCalled", val |-> <<>>]

----------------------------------------------------------------------------
(* u16_to_u8s *)

u16_to_u8s(n) == << n % 256, (n \div 256) % 256 >>

----------------------------------------------------------------------------
(* MessageBuilder *)

\* a map that keeps the first value written for a key
insert_keep_first(map, key, value) ==
    IF \E e \in map : e[1] = key THEN map ELSE map \cup { <<key, value>> }

\* HashMap::insert: the entry of an equal key is replaced
insert(map, key, value) == { e \in map : e[1] # key } \cup { <<key, value>> }

\* the closure of .map(): "<key>: <value>" in a String<260>, None when a push
\* does not fit
entry_text(k, v) ==
    IF Len(k) > ENTRY_CAPACITY THEN NoneBytes
    ELSE IF Len(k) + 2 > ENTRY_CAPACITY THEN NoneBytes
    ELSE IF Len(k) + 2 + Len(v) > ENTRY_CAPACITY THEN NoneBytes
    ELSE SomeBytes(k \o <<58, 32>> \o v)

\* the closure of .try_fold(): append the entry to the accumulator, a
\* String<MAX_BODY_SIZE>; None when the entry is None or does not fit
fold_step(acc, e) ==
    IF e.tag # "Some" THEN NoneBytes
    ELSE IF Len(acc) + Len(e.val) > MAX_BODY_SIZE THEN NoneBytes
    ELSE SomeBytes(acc \o e.val)

\* try_fold over the entries in iteration order `ord`, starting at entry i
\* with accumulator acc; stops at the first None
RECURSIVE try_fold(_, _, _)
try_fold(ord, i, acc) ==
    IF i > Len(ord) THEN SomeBytes(acc)
    ELSE LET r == fold_step(acc, entry_text(ord[i][1], ord[i][2]))
         IN IF r.tag # "Some" THEN NoneBytes ELSE try_fold(ord, i + 1, r.val)

\* the orders in which HashMap::into_iter may yield the entries (unspecified)
iteration_orders(map) ==
    { o \in [1..Cardinality(map) -> map] :
        \A i, j \in 1..Cardinality(map) : i # j => o[i] # o[j] }

\* body: self.body.unwrap_or(String::new())
body_or_default(b) == IF b.tag = "Some" THEN b.val ELSE <<>>

\* MessageBuilder::build with the map iterated in order `ord`
build(ord, b) ==
    LET h == try_fold(ord, 1, <<>>)
    IN IF h.tag # "Some" THEN NoneMsg ELSE SomeMsg(h.val, body_or_default(b))

----------------------------------------------------------------------------
(* Message::to_bytes *)

\* the output Vec<u8, { MAX_BODY_SIZE * 2 }>
OUT_CAPACITY == MAX_BODY_SIZE * 2

\* a length field without the byte of the null terminator
header_len_field_no_nul(header) == u16_to_u8s(Len(header) % U16)

\* header.len() as u16 + 1, split into two bytes
header_len_field(header) == u16_to_u8s((Len(header) % U16) + 1)

\* a vector that refuses its last byte
extend_off_by_one(out, bytes) ==
    IF out.tag # "Some" THEN out
    ELSE IF Len(out.val) + Len(bytes) >= OUT_CAPACITY THEN NoneBytes
    ELSE SomeBytes(out.val \o bytes)

\* Vec::push / Vec::extend_from_slice followed by .ok()?: once a push does
\* not fit the function has returned None
extend(out, bytes) ==
    IF out.tag # "Some" THEN out
    ELSE IF Len(out.val) + Len(bytes) > OUT_CAPACITY THEN NoneBytes
    ELSE SomeBytes(out.val \o bytes)

\* The u16 addition overflows (a panic in a build with overflow checks) only
\* for a header of 65535 bytes modulo 2^16.
to_bytes(m) ==
    IF (Len(m.header) % U16) + 1 >= U16 THEN PanicBytes
    ELSE
    LET hl == header_len_field(m.header)
        o1 == extend(SomeBytes(<<>>), <<1>>)
        o2 == extend(o1, <<2>>)
        o3 == extend(o2, <<hl[1]>>)
        o4 == extend(o3, <<hl[2]>>)
        o5 == extend(o4, m.header)
        o6 == extend(o5, <<0>>)
        o7 == extend(o6, <<3>>)
        o8 == extend(o7, <<2>>)
        o9 == extend(o8, m.body)
        o10 == extend(o9, <<0>>)
    IN extend(o10, <<4>>)

----------------------------------------------------------------------------
(* Message::from_bytes *)

\* `a as char` pushed into a String: the UTF-8 bytes of the char U+0000..U+00FF
char_bytes(a) == IF a < 128 THEN <<a>> ELSE << 192 + (a \div 64), 128 + (a % 64) >>

\* the text collected from the chars of a byte slice (halving keeps the
\* recursion shallow on long slices)
RECURSIVE chars_text(_)
chars_text(s) ==
    IF Len(s) = 0 THEN <<>>
    ELSE IF Len(s) = 1 THEN char_bytes(s[1])
    ELSE LET h == Len(s) \div 2
         IN chars_text(SubSeq(s, 1, h)) \o chars_text(SubSeq(s, h + 1, Len(s)))

\* .take_while(|x| *x != '\0')
take_while_not_nul(s) ==
    LET nul == { i \in 1..Len(s) : s[i] = 0 }
    IN IF nul = {} THEN s ELSE SubSeq(s, 1, Min(nul) - 1)

\* .iter().position(|&a| a == 0x2) on a slice: 0-based index, or -1 for None
position_stx(s) ==
    LET hit == { i \in 1..Len(s) : s[i] = 2 }
    IN IF hit = {} THEN -1 ELSE Min(hit) - 1

\* u16::from_le_bytes(input[2..4])
from_le_bytes(b) == b[1] + 256 * b[2]

\* a body slice that drops only the end sentinel
body_end_keep_nul(buf) == Len(buf) - 1

\* end of the body slice: input.len() - 2
body_end(buf) == Len(buf) - 2

\* a scan that starts at the header region instead of after it
scan_from_header(header_end) == 4

\* start of the scan for the body sentinel: header_end
scan_start(header_end) == header_end

\* String::from_iter into a String<MAX_BODY_SIZE> unwraps every push: text
\* longer than the capacity is a panic
from_bytes(buf) ==
    IF Len(buf) < 1 THEN PanicMsg                     \* input[0]
    ELSE IF At(buf, 0) # 1 THEN NoneMsg
    ELSE IF Len(buf) < 2 THEN PanicMsg                \* input[1]
    ELSE IF At(buf, 1) # 2 THEN NoneMsg
    ELSE IF At(buf, Len(buf) - 1) # 4 THEN NoneMsg
    ELSE IF Len(buf) < 4 THEN PanicMsg                \* input[2..4]
    ELSE
    LET header_len == from_le_bytes(Slice(buf, 2, 4))
        header_end == 4 + header_len
    IN  IF header_end > Len(buf) THEN PanicMsg        \* input[4..4 + header_len]
        ELSE
        LET header == chars_text(take_while_not_nul(Slice(buf, 4, header_end)))
        IN  IF Len(header) > MAX_BODY_SIZE THEN PanicMsg
            ELSE
            LET from == scan_start(header_end)
                pos == position_stx(Slice(buf, from, Len(buf)))
                body_start == pos + from
            IN  IF pos < 0 THEN NoneMsg
                ELSE IF body_start + 1 > body_end(buf) THEN PanicMsg
                                                      \* input[body_start + 1..len - 2]
                ELSE
                LET text == chars_text(Slice(buf, body_start + 1, body_end(buf)))
                IN  IF Len(text) > MAX_BODY_SIZE THEN PanicMsg
                    ELSE SomeMsg(header, text)

----------------------------------------------------------------------------
(* Inputs *)

\* keys and values (String<128>): "K", "a", "a: b" and "c", "b: c", "v\0"
Keys == { <<75>>, <<97>>, <<97, 58, 32, 98>> }
Values == { <<99>>, <<98, 58, 32, 99>>, <<118, 0>> }

\* bodies (String<MAX_BODY_SIZE>): "", "hi", "é" (two UTF-8 bytes)
Bodies == { <<>>, <<104, 105>>, <<195, 169>> }

\* Message struct literals, up to the capacity of both fields:
\* headers "", "H: v", 4096 x 'x'; bodies "", 'x' repeated
LiteralHeaders == { <<>>, <<72, 58, 32, 118>>, Rep(120, MAX_BODY_SIZE) }
LiteralBodies ==
    { <<>>,
      Rep(120, OUT_CAPACITY - 9 - MAX_BODY_SIZE),
      Rep(120, OUT_CAPACITY - 8 - MAX_BODY_SIZE),
      Rep(120, MAX_BODY_SIZE) }

\* every buffer of at most MaxBufLen bytes over a small alphabet holding the
\* sentinels, the null byte and a letter
ByteAlphabet == { 0, 1, 2, 4, 65 }
SmallBuffers == UNION { [1..n -> ByteAlphabet] : n \in 0..MaxBufLen }

\* "Request-Data: phases", the header of test_header
RequestData ==
    << 82, 101, 113, 117, 101, 115, 116, 45, 68, 97,
       116, 97, 58, 32, 112, 104, 97, 115, 101, 115 >>

\* hand-made frames [1, 2, L] header [0, 3, 2] body [0, 4], as in test_header
Frame(h, b, L) == <<1, 2>> \o u16_to_u8s(L) \o h \o <<0, 3, 2>> \o b \o <<0, 4>>
FrameHeaders == { <<>>, RequestData, <<2, 65>>, Rep(120, MAX_BODY_SIZE) }
FrameBodies == { <<>>, <<104, 105>>, <<2, 0, 4>>, Rep(120, MAX_BODY_SIZE) }
Frames ==
    { Frame(h, b, L) : h \in FrameHeaders, b \in FrameBodies, L \in {0, 1} }
        \cup { Frame(h, b, Len(h) + d) : h \in FrameHeaders, b \in FrameBodies,
                                         d \in {0, 1} }

\* malformed buffers: a header_len past the end, the first 0x02 in the last
\* two bytes, and header / body regions of bytes >= 0x80 whose text outgrows
\* the String capacity
Adversarial ==
    { <<1, 2, 9, 0, 4>>,
      <<1, 2, 0, 0, 2, 4>>,
      <<1, 2, 1, 0, 65, 0, 2, 0, 4>>,
      <<1, 2>> \o u16_to_u8s(MAX_BODY_SIZE \div 2 + 1)
          \o Rep(255, MAX_BODY_SIZE \div 2 + 1) \o <<2, 0, 4>>,
      <<1, 2, 0, 0, 2>> \o Rep(255, MAX_BODY_SIZE \div 2 + 1) \o <<0, 4>> }

Buffers == SmallBuffers \cup Frames \cup Adversarial

----------------------------------------------------------------------------
(* State machine *)

Call(op, key, value) == [op |-> op, key |-> key, value |-> value]

Init ==
    /\ pc = "start"
    /\ headers = {}
    /\ body = NoneBytes
    /\ calls = <<>>
    /\ message = NotCalledMsg
    /\ wire = NotCalledBytes
    /\ input = <<>>
    /\ decoded = NotCalledMsg

\* MessageBuilder::new()
New ==
    /\ pc = "start"
    /\ pc' = "builder"
    /\ headers' = {}
    /\ body' = NoneBytes
    /\ UNCHANGED <<calls, message, wire, input, decoded>>

\* MessageBuilder::add_header(key, value)
AddHeader ==
    /\ pc = "builder"
    /\ Len(calls) < MaxCalls
    /\ \E key \in Keys, value \in Values :
        /\ headers' = insert(headers, key, value)
        /\ calls' = Append(calls, Call("add_header", key, value))
    /\ UNCHANGED <<pc, body, message, wire, input, decoded>>

\* MessageBuilder::set_body(body)
SetBody ==
    /\ pc = "builder"
    /\ Len(calls) < MaxCalls
    /\ \E b \in Bodies :
        /\ body' = SomeBytes(b)
        /\ calls' = Append(calls, Call("set_body", <<>>, b))
    /\ UNCHANGED <<pc, headers, message, wire, input, decoded>>

\* MessageBuilder::build(), the map iterated in any order
Build ==
    /\ pc = "builder"
    /\ \E ord \in iteration_orders(headers) : message' = build(ord, body)
    /\ pc' = "built"
    /\ UNCHANGED <<headers, body, calls, wire, input, decoded>>

\* a Message written as a struct literal (both fields are pub)
MessageLiteral ==
    /\ pc = "start"
    /\ \E h \in LiteralHeaders, b \in LiteralBodies : message' = SomeMsg(h, b)
    /\ pc' = "literal"
    /\ UNCHANGED <<headers, body, calls, wire, input, decoded>>

\* Message::to_bytes(self)
ToBytes ==
    /\ pc \in {"built", "literal"}
    /\ message.tag = "Some"
    /\ wire' = to_bytes(message.val)
    /\ pc' = "encoded"
    /\ UNCHANGED <<headers, body, calls, message, input, decoded>>

\* Message::from_bytes(input): on the encoded buffer, or on a buffer that
\* arrives from outside
FromBytes ==
    /\ \E buf \in (IF pc = "start" THEN Buffers
                   ELSE IF pc = "encoded" /\ wire.tag = "Some" THEN {wire.val}
                   ELSE {}) :
        /\ input' = buf
        /\ decoded' = from_bytes(buf)
    /\ pc' = "decoded"
    /\ UNCHANGED <<headers, body, calls, message, wire>>

Next ==
    \/ New
    \/ AddHeader
    \/ SetBody
    \/ Build
    \/ MessageLiteral
    \/ ToBytes
    \/ FromBytes

Spec == Init /\ [][Next]_vars

----------------------------------------------------------------------------
(* Properties *)

Printable(s) == \A i \in 1..Len(s) : s[i] \in 32..126
Ascii(s) == \A i \in 1..Len(s) : s[i] \in 0..127
HasNul(s) == \E i \in 1..Len(s) : s[i] = 0

\* the builder's strings at build time
BuilderTexts ==
    { e[1] : e \in headers } \cup { e[2] : e \in headers }
        \cup { body_or_default(body) }

\* the buffer just decoded is the one to_bytes produced
Decoded == pc = "decoded"
RoundTripped == pc = "decoded" /\ wire.tag = "Some" /\ input = wire.val

\* C1: from_bytes never panics: on every buffer it returns Some or None.
C1_DecodeSafe == Decoded => decoded.tag \in {"Some", "None"}

\* C2: round trip: a Message built from printable-ASCII keys, values and body
\* (or written with a printable header and body) that to_bytes encodes is
\* decoded by from_bytes to a Message with the same header and body.
C2_RoundTrip ==
    (/\ RoundTripped
     /\ \A t \in BuilderTexts : Printable(t)
     /\ Printable(message.val.header)
     /\ Printable(message.val.body))
        => /\ decoded.tag = "Some"
           /\ decoded.val.header = message.val.header
           /\ decoded.val.body = message.val.body

\* a round trip of a built Message with two headers and a body
C2_Witness ==
    /\ RoundTripped
    /\ Cardinality(headers) = 2
    /\ body.tag = "Some" /\ body.val # <<>>
    /\ \A t \in BuilderTexts : Printable(t)
    /\ decoded = message

C4_HeaderLenHonesty ==
    (/\ Decoded
     /\ Len(input) >= 4
     /\ input[1] = 1 /\ input[2] = 2 /\ input[Len(input)] = 4
     /\ 4 + input[3] + 256 * input[4] > Len(input))
        => decoded.tag = "None"

\* C5: a buffer that is empty, shorter than the 5-byte minimum frame, does
\* not begin with 1, 2 or does not end with 4 is rejected with None.
C5_FramePreChecks ==
    (/\ Decoded
     /\ \/ Len(input) < 5
        \/ input[1] # 1
        \/ input[2] # 2
        \/ input[Len(input)] # 4)
        => decoded.tag = "None"

\* C6: to_bytes never panics and returns None exactly when the encoded size
\* len(header) + len(body) + 9 exceeds 8192 bytes.
C6_EncodeCapacity ==
    wire.tag # "NotCalled" =>
        /\ wire.tag \in {"Some", "None"}
        /\ wire.tag = "None"
            <=> Len(message.val.header) + Len(message.val.body) + 9 > 8192

\* a Message whose fields each fit 4096 bytes and sum to 8184 is refused
C6_Witness ==
    /\ pc = "encoded"
    /\ Len(message.val.header) <= 4096 /\ Len(message.val.body) <= 4096
    /\ Len(message.val.header) + Len(message.val.body) = 8184
    /\ wire.tag = "None"

\* C7: build returns None if and only if a header key, a header value or the
\* body holds a null byte.
C7_BuildValidation ==
    pc = "built" => (message.tag = "None" <=> \E t \in BuilderTexts : HasNul(t))

\* the calls on the builder
AddCalls == { i \in 1..Len(calls) : calls[i].op = "add_header" }
BodyCalls == { i \in 1..Len(calls) : calls[i].op = "set_body" }
CalledKeys == { calls[i].key : i \in AddCalls }
Max(S) == CHOOSE i \in S : \A j \in S : j <= i
LastValue(k) == calls[Max({ i \in AddCalls : calls[i].key = k })].value
LastBody == IF BodyCalls = {} THEN <<>> ELSE calls[Max(BodyCalls)].value

\* the concatenation of "<key>: <last value>" over a sequence of keys
RECURSIVE Entries(_)
Entries(ks) ==
    IF ks = <<>> THEN <<>>
    ELSE ks[1] \o <<58, 32>> \o LastValue(ks[1]) \o Entries(Tail(ks))

\* C8: last write wins: a successful build yields the concatenation, in some
\* order, of one "<key>: <value>" entry per distinct key with the value of the
\* last add_header for that key, and the body of the last set_body (empty if
\* there was none).
C8_LastWriteWins ==
    (pc = "built" /\ message.tag = "Some") =>
        /\ message.val.body = LastBody
        /\ \E ks \in [1..Cardinality(CalledKeys) -> CalledKeys] :
            /\ \A i, j \in 1..Len(ks) : i # j => ks[i] # ks[j]
            /\ message.val.header = Entries(ks)

\* a build after a key was written twice with different values, and one
\* after the body was set twice
C8_Witness ==
    /\ pc = "built" /\ message.tag = "Some"
    /\ \E i, j \in AddCalls :
        i < j /\ calls[i].key = calls[j].key /\ calls[i].value # calls[j].value

\* the header mappings over the model's keys and values
Mappings ==
    { m \in SUBSET (Keys \X Values) :
        \A e, f \in m : e[1] = f[1] => e = f }

HeaderTexts(m) == { build(o, NoneBytes).val.header : o \in iteration_orders(m) }

\* C9: the header text determines the key/value pairs: two builders whose
\* mappings differ never build the same header text.
C9_HeaderRecoverable ==
    pc = "built" =>
        \A other \in Mappings :
            other # headers => HeaderTexts(other) \cap HeaderTexts(headers) = {}

\* C10: a frame [1, 2, L] header [0, 3, 2] body [0, 4] with an ASCII header
\* free of null bytes and an ASCII body, each of at most 4096 bytes, decodes
\* to Some(Message{header, body}) when L is the header length and when L is
\* the header length plus one; and whenever an ASCII buffer decodes, the
\* header is the region of L bytes cut at its first null byte and the body is
\* every byte after the first 0x02 at or after offset 4 + L, up to the last
\* two bytes.
IsFrame(buf, n) ==
    /\ n >= 0 /\ n <= 4096
    /\ Len(buf) >= n + 9 /\ Len(buf) - n - 9 <= 4096
    /\ buf[1] = 1 /\ buf[2] = 2
    /\ ~HasNul(SubSeq(buf, 5, 4 + n))
    /\ buf[5 + n] = 0 /\ buf[6 + n] = 3 /\ buf[7 + n] = 2
    /\ buf[Len(buf) - 1] = 0 /\ buf[Len(buf)] = 4
    /\ Ascii(buf)

C10_DecoderTolerance ==
    Decoded =>
        /\ \A d \in {0, 1} :
            (Len(input) >= 4 /\ IsFrame(input, input[3] + 256 * input[4] - d))
                => LET n == input[3] + 256 * input[4] - d
                   IN decoded = SomeMsg(SubSeq(input, 5, 4 + n),
                                        SubSeq(input, 8 + n, Len(input) - 2))
        /\ (decoded.tag = "Some" /\ Ascii(input)) =>
            LET L == input[3] + 256 * input[4]
                hd == decoded.val.header
            IN  /\ Len(hd) <= L
                /\ hd = SubSeq(input, 5, 4 + Len(hd))
                /\ ~HasNul(hd)
                /\ Len(hd) < L => input[5 + Len(hd)] = 0
                /\ \E p \in (5 + L)..Len(input) :
                    /\ input[p] = 2
                    /\ \A q \in (5 + L)..(p - 1) : input[q] # 2
                    /\ decoded.val.body = SubSeq(input, p + 1, Len(input) - 2)

\* the frame of test_header (L is the header length) and a frame with L the
\* header length plus one whose header holds a 0x02
C10_Witness ==
    /\ Decoded /\ decoded.tag = "Some"
    /\ \/ input = Frame(RequestData, <<>>, Len(RequestData))
       \/ input = Frame(<<2, 65>>, <<2, 0, 4>>, 3)

====
